---- MODULE Spec2Model ----
(***************************************************************************)
(* A model of prataprc/cgi:                                                *)
(*   - the event handlers of the example applications (examples/cls,       *)
(*     examples/triangle, examples/points) driven by the window event loop;*)
(*   - the Vulkan builder of vgi/src/vulkan.rs (Builder, Vulkan);          *)
(*   - the layout types of src/layout.rs (Size, BoxLayout, State<T>).      *)
(* Four specifications share the module: Spec (the example applications),  *)
(* VkSpec (the Vulkan builder), LaySpec (the conversions and coordinate    *)
(* transforms of layout.rs) and StateSpec (State<T> of a circle).  Each    *)
(* leaves the others' variables untouched.                                 *)
(***************************************************************************)
EXTENDS Integers, Sequences, FiniteSets, TLC

VARIABLES
    \* ---- example applications ----
    app,              \* which example runs: "cls", "triangle" or "points"
    screen,           \* r.screen: [size, config], the window's physical size
                      \* and the size the surface is configured with
    control_flow,     \* the event loop's ControlFlow: "Poll" or "Exit"
    phase,            \* position of the event loop inside one iteration
    redraw_requested, \* Window::request_redraw() is pending
    last,             \* the last handler call: its event, result and calls
    \* ---- vulkan builder ----
    env,              \* the machine: driver version, physical devices, ...
    builder,          \* the Builder value, if there is one
    vk,               \* the Vulkan object, if there is one
    ncalls,           \* the number of with_* and create_swapchain calls made
    built,            \* the builder and the argument build was called with
    vkres,            \* the last Builder / Vulkan call and its result
    \* ---- layout ----
    layres,           \* the last conversion or transform and its result
    state,            \* a circle's State<Attributes>
    hist              \* the state as constructed, and the State::resize
                      \* calls made since

appvars == <<app, screen, control_flow, phase, redraw_requested, last>>
vkvars == <<env, builder, ncalls, vk, built, vkres>>
lyvars == <<layres, state, hist>>
vars == <<app, screen, control_flow, phase, redraw_requested, last,
          env, builder, ncalls, vk, built, vkres, layres, state, hist>>

\* Option::None
None == "None"

(***************************************************************************)
(* Bounds                                                                  *)
(***************************************************************************)
\* window widths and heights range over 0..MaxDim
MaxDim == 2
\* minor and patch numbers of Vulkan versions range over 0..MaxVer
MaxVer == 1
\* a QueueCreateInfo holds at most MaxPriorities priorities
MaxPriorities == 2
\* SwapchainCreateInfo.num_images ranges over 1..MaxImages
MaxImages == 2
\* a program makes at most MaxCalls calls between the builder's construction
\* and the end, not counting build
MaxCalls == 2

(***************************************************************************)
(* The example applications                                                *)
(***************************************************************************)
Apps == {"cls", "triangle", "points"}

\* winit::dpi::PhysicalSize<u32>
Sizes == [width : 0..MaxDim, height : 0..MaxDim]

\* gpgpu::Error as the handlers distinguish it: the two surface errors they
\* name and the others their comment names
Errors == {"SurfaceLost", "SurfaceOutOfMemory", "Outdated", "Timeout"}

\* Result<(), Error> of Screen::render
RenderResults == {"Ok"} \cup Errors

\* Result of Screen::get_current_texture; the handlers discard the error
\* value with .ok()
AcquireResults == {"Ok", "Err"}

\* winit ElementState and Option<VirtualKeyCode>
ElementStates == {"Pressed", "Released"}
KeyCodes == {"Escape", "Space", None}

\* winit::event::Event, as far as the handlers match on it
KeyboardEvents ==
    [kind : {"WindowEvent"}, event : {"KeyboardInput"},
     state : ElementStates, virtual_keycode : KeyCodes]
OtherWindowEvents ==
    [kind : {"WindowEvent"}, event : {"Focused", "CursorMoved"},
     state : {None}, virtual_keycode : {None}]
NonWindowEvents ==
    [kind : {"DeviceEvent", "Suspended"}, event : {None},
     state : {None}, virtual_keycode : {None}]
Events == KeyboardEvents \cup OtherWindowEvents \cup NonWindowEvents

\* an event whose payload the handler does not read
PlainEvent(k) ==
    [kind |-> k, event |-> None, state |-> None, virtual_keycode |-> None]

\* Screen::to_physical_size
to_physical_size(scr) == scr.size

\* Screen::resize(size): take the size and configure the surface with it
Screen_resize(scr, size) == [size |-> size, config |-> size]

\* what a handler does: its return value, the screen it leaves, the
\* Screen::resize calls it made (their arguments), whether it printed the
\* error, whether it called Window::request_redraw
Done(ret, scr, resized, printed, requested) ==
    [ret |-> ret, screen |-> scr, resized |-> resized,
     printed |-> printed, requested |-> requested]

\* a variant of cls_on_redraw_requested that forgets the surface on loss
cls_on_redraw_requested_lost_ignored(scr, acquire, render) ==
    IF acquire # "Ok"
    THEN Done(None, scr, <<>>, FALSE, FALSE)
    ELSE CASE render = "Ok" -> Done(None, scr, <<>>, FALSE, FALSE)
           [] render = "SurfaceOutOfMemory" ->
                Done("Exit", scr, <<>>, FALSE, FALSE)
           [] OTHER -> Done(None, scr, <<>>, TRUE, FALSE)

\* examples/cls: on_redraw_requested
cls_on_redraw_requested(scr, acquire, render) ==
    IF acquire # "Ok"
    THEN Done(None, scr, <<>>, FALSE, FALSE)
    ELSE CASE render = "Ok" -> Done(None, scr, <<>>, FALSE, FALSE)
           [] render = "SurfaceLost" ->
                Done(None, Screen_resize(scr, to_physical_size(scr)),
                     <<to_physical_size(scr)>>, FALSE, FALSE)
           [] render = "SurfaceOutOfMemory" ->
                Done("Exit", scr, <<>>, FALSE, FALSE)
           [] OTHER -> Done(None, scr, <<>>, TRUE, FALSE)

\* a variant of triangle_on_redraw_requested that treats out-of-memory like
\* surface loss
triangle_on_redraw_requested_oom_as_lost(scr, acquire, render) ==
    IF acquire # "Ok"
    THEN Done(None, scr, <<>>, FALSE, FALSE)
    ELSE CASE render = "Ok" -> Done(None, scr, <<>>, FALSE, FALSE)
           [] render \in {"SurfaceLost", "SurfaceOutOfMemory"} ->
                Done(None, Screen_resize(scr, to_physical_size(scr)),
                     <<to_physical_size(scr)>>, FALSE, FALSE)
           [] OTHER -> Done(None, scr, <<>>, TRUE, FALSE)

\* examples/triangle: on_redraw_requested
triangle_on_redraw_requested(scr, acquire, render) ==
    IF acquire # "Ok"
    THEN Done(None, scr, <<>>, FALSE, FALSE)
    ELSE CASE render = "Ok" -> Done(None, scr, <<>>, FALSE, FALSE)
           [] render = "SurfaceLost" ->
                Done(None, Screen_resize(scr, to_physical_size(scr)),
                     <<to_physical_size(scr)>>, FALSE, FALSE)
           [] render = "SurfaceOutOfMemory" ->
                Done("Exit", scr, <<>>, FALSE, FALSE)
           [] OTHER -> Done(None, scr, <<>>, TRUE, FALSE)

\* a variant of points_on_redraw_requested that gives up on every error but
\* surface loss
points_on_redraw_requested_exit_on_error(scr, acquire, render) ==
    IF acquire # "Ok"
    THEN Done(None, scr, <<>>, FALSE, FALSE)
    ELSE CASE render = "Ok" -> Done(None, scr, <<>>, FALSE, FALSE)
           [] render = "SurfaceLost" ->
                Done(None, Screen_resize(scr, to_physical_size(scr)),
                     <<to_physical_size(scr)>>, FALSE, FALSE)
           [] OTHER -> Done("Exit", scr, <<>>, TRUE, FALSE)

\* examples/points: on_redraw_requested
points_on_redraw_requested(scr, acquire, render) ==
    IF acquire # "Ok"
    THEN Done(None, scr, <<>>, FALSE, FALSE)
    ELSE CASE render = "Ok" -> Done(None, scr, <<>>, FALSE, FALSE)
           [] render = "SurfaceLost" ->
                Done(None, Screen_resize(scr, to_physical_size(scr)),
                     <<to_physical_size(scr)>>, FALSE, FALSE)
           [] render = "SurfaceOutOfMemory" ->
                Done("Exit", scr, <<>>, FALSE, FALSE)
           [] OTHER -> Done(None, scr, <<>>, TRUE, FALSE)

\* examples/cls: on_win_keyboard_input
cls_on_win_keyboard_input(scr, ev) ==
    IF ev.kind = "WindowEvent"
    THEN IF ev.event = "KeyboardInput" /\ ev.state = "Pressed"
            /\ ev.virtual_keycode = "Escape"
         THEN Done("Exit", scr, <<>>, FALSE, FALSE)
         ELSE Done(None, scr, <<>>, FALSE, FALSE)
    ELSE Done(None, scr, <<>>, FALSE, FALSE)

\* examples/triangle: on_win_keyboard_input
triangle_on_win_keyboard_input(scr, ev) ==
    IF ev.kind = "WindowEvent"
    THEN IF ev.event = "KeyboardInput" /\ ev.state = "Pressed"
            /\ ev.virtual_keycode = "Escape"
         THEN Done("Exit", scr, <<>>, FALSE, FALSE)
         ELSE Done(None, scr, <<>>, FALSE, FALSE)
    ELSE Done(None, scr, <<>>, FALSE, FALSE)

\* a variant of points_on_win_keyboard_input that does not look at the key's
\* state
points_on_win_keyboard_input_any_state(scr, ev) ==
    IF ev.kind = "WindowEvent"
    THEN IF ev.event = "KeyboardInput" /\ ev.virtual_keycode = "Escape"
         THEN Done("Exit", scr, <<>>, FALSE, FALSE)
         ELSE Done(None, scr, <<>>, FALSE, FALSE)
    ELSE Done(None, scr, <<>>, FALSE, FALSE)

\* examples/points: on_win_keyboard_input
points_on_win_keyboard_input(scr, ev) ==
    IF ev.kind = "WindowEvent"
    THEN IF ev.event = "KeyboardInput" /\ ev.state = "Pressed"
            /\ ev.virtual_keycode = "Escape"
         THEN Done("Exit", scr, <<>>, FALSE, FALSE)
         ELSE Done(None, scr, <<>>, FALSE, FALSE)
    ELSE Done(None, scr, <<>>, FALSE, FALSE)

\* a variant of on_main_events_cleared that does not ask for a redraw
on_main_events_cleared_no_request(scr) ==
    Done(None, scr, <<>>, FALSE, FALSE)

\* on_main_events_cleared, the same three lines in the three examples
on_main_events_cleared(scr) == Done(None, scr, <<>>, FALSE, TRUE)

\* on_win_resized: WindowEvent::Resized(size) => r.screen.resize(*size)
on_win_resized(scr, size) ==
    Done(None, Screen_resize(scr, size), <<size>>, FALSE, FALSE)

\* on_win_scale_factor_changed: r.screen.resize(**new_inner_size)
on_win_scale_factor_changed(scr, new_inner_size) ==
    Done(None, Screen_resize(scr, new_inner_size), <<new_inner_size>>,
         FALSE, FALSE)

\* on_win_close_requested
on_win_close_requested(scr) == Done("Exit", scr, <<>>, FALSE, FALSE)

\* the handler each example registers with the window
on_redraw_requested(a, scr, acquire, render) ==
    CASE a = "cls" -> cls_on_redraw_requested(scr, acquire, render)
      [] a = "triangle" -> triangle_on_redraw_requested(scr, acquire, render)
      [] a = "points" -> points_on_redraw_requested(scr, acquire, render)

on_win_keyboard_input(a, scr, ev) ==
    CASE a = "cls" -> cls_on_win_keyboard_input(scr, ev)
      [] a = "triangle" -> triangle_on_win_keyboard_input(scr, ev)
      [] a = "points" -> points_on_win_keyboard_input(scr, ev)

(***************************************************************************)
(* The event loop, SingleWindow::run: one iteration delivers the window    *)
(* events, then MainEventsCleared, then RedrawRequested when a redraw is   *)
(* pending, then RedrawEventsCleared.  A handler's Some(control_flow)      *)
(* becomes the loop's control flow; Exit ends the loop.                    *)
(***************************************************************************)
NoCall ==
    [handler |-> None, event |-> PlainEvent(None), acquire |-> None,
     render |-> None, before |-> None, ret |-> None, resized |-> <<>>,
     printed |-> FALSE, requested |-> FALSE, pending |-> FALSE]

\* the loop calls handler h on event ev and takes over what it did;
\* pending: a redraw was already pending when it called
Dispatch(h, ev, acquire, render, d, nextphase) ==
    /\ last' = [handler |-> h, event |-> ev, acquire |-> acquire,
                render |-> render, before |-> screen, ret |-> d.ret,
                resized |-> d.resized, printed |-> d.printed,
                requested |-> d.requested, pending |-> redraw_requested]
    /\ screen' = d.screen
    /\ control_flow' = IF d.ret = None THEN control_flow ELSE d.ret
    /\ phase' = nextphase
    /\ UNCHANGED <<app, vkvars, lyvars>>

Running == control_flow # "Exit"

WinKeyboardInput ==
    /\ Running /\ phase = "events"
    /\ \E ev \in Events :
         Dispatch("on_win_keyboard_input", ev, None, None,
                  on_win_keyboard_input(app, screen, ev), "events")
    /\ UNCHANGED redraw_requested

WinResized ==
    /\ Running /\ phase = "events"
    /\ \E size \in Sizes :
         Dispatch("on_win_resized", PlainEvent("WindowEvent"), None, None,
                  on_win_resized(screen, size), "events")
    /\ UNCHANGED redraw_requested

WinScaleFactorChanged ==
    /\ Running /\ phase = "events"
    /\ \E size \in Sizes :
         Dispatch("on_win_scale_factor_changed", PlainEvent("WindowEvent"),
                  None, None, on_win_scale_factor_changed(screen, size),
                  "events")
    /\ UNCHANGED redraw_requested

WinCloseRequested ==
    /\ Running /\ phase = "events"
    /\ Dispatch("on_win_close_requested", PlainEvent("WindowEvent"), None,
                None, on_win_close_requested(screen), "events")
    /\ UNCHANGED redraw_requested

MainEventsCleared ==
    /\ Running /\ phase = "events"
    /\ LET d == on_main_events_cleared(screen)
       IN /\ Dispatch("on_main_events_cleared",
                      PlainEvent("MainEventsCleared"), None, None, d,
                      "redraw")
          /\ redraw_requested' = (redraw_requested \/ d.requested)

RedrawRequested ==
    /\ Running /\ phase = "redraw" /\ redraw_requested
    /\ \E acquire \in AcquireResults, render \in RenderResults :
         /\ (acquire # "Ok") => (render = "Ok")
         /\ Dispatch("on_redraw_requested", PlainEvent("RedrawRequested"),
                     acquire, IF acquire = "Ok" THEN render ELSE None,
                     on_redraw_requested(app, screen, acquire, render),
                     "cleared")
    /\ redraw_requested' = FALSE

\* no handler is registered for RedrawEventsCleared: the iteration ends
RedrawEventsCleared ==
    /\ Running
    /\ \/ phase = "cleared"
       \/ phase = "redraw" /\ ~redraw_requested
    /\ phase' = "events"
    /\ UNCHANGED <<app, screen, control_flow, redraw_requested, last, vkvars,
                   lyvars>>

NoVk == [none |-> TRUE]
NoLay == [none |-> TRUE]

Init ==
    /\ app \in Apps
    /\ \E size \in Sizes : screen = [size |-> size, config |-> size]
    /\ control_flow = "Poll"
    /\ phase = "events"
    /\ redraw_requested = TRUE
    /\ last = NoCall
    /\ env = NoVk /\ builder = NoVk /\ vk = NoVk /\ built = NoVk
    /\ ncalls = 0
    /\ vkres = NoVk
    /\ layres = NoLay /\ state = NoLay /\ hist = NoLay

Next ==
    \/ WinKeyboardInput
    \/ WinResized
    \/ WinScaleFactorChanged
    \/ WinCloseRequested
    \/ MainEventsCleared
    \/ RedrawRequested
    \/ RedrawEventsCleared

Spec == Init /\ [][Next]_vars

\* the window system delivers RedrawRequested once the main events are
\* cleared and a redraw is pending
FairSpec == Spec /\ WF_vars(RedrawRequested)

(***************************************************************************)
(* The Vulkan builder, vgi/src/vulkan.rs                                   *)
(***************************************************************************)
\* Option<T> and Result<T> of the builder's values
Some(x) == [some |-> TRUE, val |-> x]
Nothing == [some |-> FALSE]
Ok(x) == [ok |-> TRUE, val |-> x]
Err(e) == [ok |-> FALSE, err |-> e]

min(a, b) == IF a < b THEN a ELSE b

\* vulkano Version {major, minor, patch}; its derived Ord compares the
\* fields in this order
Versions == {<<1, minor, patch>> : minor \in 0..MaxVer, patch \in 0..MaxVer}
VersionLe(a, b) ==
    \/ a[1] < b[1]
    \/ a[1] = b[1] /\ a[2] < b[2]
    \/ a[1] = b[1] /\ a[2] = b[2] /\ a[3] <= b[3]

\* InstanceExtensions and DeviceExtensions are structs of booleans: the set
\* of the names that are true
InstanceExtensions_none == {}
\* InstanceExtensions::supported_by_core() on the machine
InstanceExtensions_supported_by_core ==
    {"khr_surface", "khr_xcb_surface", "ext_debug_utils"}

FeatureExtensionNames ==
    {"ext_descriptor_indexing", "khr_draw_indirect_count",
     "ext_sampler_filter_minmax", "khr_sampler_mirror_clamp_to_edge",
     "ext_shader_viewport_index_layer"}
DeviceExtensionNames ==
    FeatureExtensionNames \cup {"khr_swapchain", "khr_portability_subset"}

\* Features, likewise the set of the names that are true
Features_none == {}

\* Properties::default() has every field None; confirm_properties reads
\* whether any field is Some
Properties_default == [any_some |-> FALSE]

\* tenths: the f32 priority 1.0 of QueueCreateInfo::default
DefaultPriority == 10

QueueCapabilities == {"Graphics", "Compute", "Transfer", "SparseBinding"}

\* impl Default for QueueCreateInfo
QueueCreateInfo_default ==
    [cap |-> "Graphics", stages |-> <<>>, priorities |-> <<DefaultPriority>>]

(***************************************************************************)
(* The machine: two physical devices with their queue families.            *)
(* DeviceExtensions::required_extensions(pd) is library code: the          *)
(* extensions that must be enabled when the device supports them,          *)
(* intersected with what the device supports.  Vulkan has one such         *)
(* extension, VK_KHR_portability_subset; the first device supports it, the *)
(* second does not.                                                        *)
(***************************************************************************)
QueueFamily(id, g, c, t, s, stages, n) ==
    [id |-> id, supports_graphics |-> g, supports_compute |-> c,
     explicitly_supports_transfers |-> t, supports_sparse_binding |-> s,
     stages |-> stages, queues_count |-> n]

PhysicalDevices ==
    << [queue_families |->
           << QueueFamily(0, TRUE, TRUE, FALSE, FALSE,
                          {"vertex_shader", "compute_shader"}, 1),
              QueueFamily(1, FALSE, FALSE, TRUE, TRUE, {}, 2) >>,
        supported_extensions |-> DeviceExtensionNames],
       [queue_families |->
           << QueueFamily(0, FALSE, TRUE, FALSE, FALSE,
                          {"compute_shader"}, 2),
              QueueFamily(1, TRUE, FALSE, FALSE, FALSE,
                          {"vertex_shader"}, 3) >>,
        supported_extensions |->
           FeatureExtensionNames \cup {"khr_swapchain"}] >>

RequiredIfSupported == {"khr_portability_subset"}

DeviceExtensions_required_extensions(pd) ==
    RequiredIfSupported \cap pd.supported_extensions

\* the queue family's test for info.cap, the match of make_queue_request
SupportsCap(info, qf) ==
    CASE info.cap = "Graphics" ->
            /\ qf.supports_graphics
            /\ \A i \in DOMAIN info.stages : info.stages[i] \in qf.stages
      [] info.cap = "Compute" -> qf.supports_compute
      [] info.cap = "Transfer" -> qf.explicitly_supports_transfers
      [] info.cap = "SparseBinding" -> qf.supports_sparse_binding

\* fn make_queue_request: the first family that supports info.cap gets the
\* first min(priorities.len(), queues_count) priorities
make_queue_request(info, qfamilies) ==
    LET found == {i \in DOMAIN qfamilies : SupportsCap(info, qfamilies[i])}
    IN IF found = {}
       THEN <<>>
       ELSE LET i == CHOOSE k \in found : \A j \in found : k <= j
                qf == qfamilies[i]
                n == min(Len(info.priorities), qf.queues_count)
            IN [k \in 1..n |-> <<qf.id, info.priorities[k]>>]

\* fn api_version: the driver's version, or the loader's error
api_version(e) == e.api_version

\* a variant of extensions_for_features that keeps only the extensions of
\* the requested features
extensions_for_features_only(features, extensions) ==
    extensions \cap (
        (IF "descriptor_indexing" \in features
         THEN {"ext_descriptor_indexing"} ELSE {}) \cup
        (IF "draw_indirect_count" \in features
         THEN {"khr_draw_indirect_count"} ELSE {}) \cup
        (IF "sampler_filter_minmax" \in features
         THEN {"ext_sampler_filter_minmax"} ELSE {}) \cup
        (IF "sampler_mirror_clamp_to_edge" \in features
         THEN {"khr_sampler_mirror_clamp_to_edge"} ELSE {}) \cup
        (IF "shader_output_layer" \in features
         THEN {"ext_shader_viewport_index_layer"} ELSE {}))

\* fn extensions_for_features
extensions_for_features(features, extensions) ==
    extensions \ (
        (IF "descriptor_indexing" \notin features
         THEN {"ext_descriptor_indexing"} ELSE {}) \cup
        (IF "draw_indirect_count" \notin features
         THEN {"khr_draw_indirect_count"} ELSE {}) \cup
        (IF "sampler_filter_minmax" \notin features
         THEN {"ext_sampler_filter_minmax"} ELSE {}) \cup
        (IF "sampler_mirror_clamp_to_edge" \notin features
         THEN {"khr_sampler_mirror_clamp_to_edge"} ELSE {}) \cup
        (IF "shader_output_layer" \notin features
         THEN {"ext_shader_viewport_index_layer"} ELSE {}))

\* a variant of union_iextns that takes the fields of a alone
union_iextns_left(a, b) == a

\* fn union_iextns: the field-wise or of two InstanceExtensions
union_iextns(a, b) == a \cup b

\* fn confirm_properties: todo!() on the first requested property
confirm_properties(b, props) ==
    IF b.properties.any_some THEN Err("panic: not yet implemented")
    ELSE Ok(TRUE)

\* Builder::new
Builder_new(e) ==
    LET v == api_version(e)
    IN IF ~v.ok
       THEN Err(v.err)
       ELSE Ok([app_info |-> "cargo_toml",
                version |-> v.val,
                iextns |-> InstanceExtensions_none,
                layers |-> <<>>,
                device_id |-> 0,
                queue_infos |-> <<QueueCreateInfo_default>>,
                dextns |-> Nothing,
                properties |-> Properties_default,
                features |-> Features_none])

\* a variant of Builder::with that compares the versions field by field
Builder_with_fieldwise(e, app_info, version) ==
    LET local_ver == api_version(e)
    IN IF ~local_ver.ok
       THEN Err(local_ver.err)
       ELSE IF version.some
               /\ ~(\A i \in 1..3 : version.val[i] <= local_ver.val[i])
       THEN Err("local_version < version")
       ELSE Ok([app_info |-> app_info,
                version |-> IF version.some THEN version.val
                            ELSE local_ver.val,
                iextns |-> InstanceExtensions_none,
                layers |-> <<>>,
                device_id |-> 0,
                queue_infos |-> <<QueueCreateInfo_default>>,
                dextns |-> Nothing,
                properties |-> Properties_default,
                features |-> Features_none])

\* Builder::with
Builder_with(e, app_info, version) ==
    LET local_ver == api_version(e)
    IN IF ~local_ver.ok
       THEN Err(local_ver.err)
       ELSE IF version.some /\ ~VersionLe(version.val, local_ver.val)
       THEN Err("local_version < version")
       ELSE Ok([app_info |-> app_info,
                version |-> IF version.some THEN version.val
                            ELSE local_ver.val,
                iextns |-> InstanceExtensions_none,
                layers |-> <<>>,
                device_id |-> 0,
                queue_infos |-> <<QueueCreateInfo_default>>,
                dextns |-> Nothing,
                properties |-> Properties_default,
                features |-> Features_none])

\* Builder::with_app_info
with_app_info(b, app_info) == [b EXCEPT !.app_info = app_info]

\* Builder::with_layers
with_layers(b, layers) == [b EXCEPT !.layers = layers]

\* Builder::with_extensions
with_extensions(b, extensions) ==
    [b EXCEPT !.iextns = IF extensions.some THEN extensions.val
                         ELSE InstanceExtensions_supported_by_core]

\* Builder::with_device
with_device(b, id, extensions, properties, features) ==
    [b EXCEPT !.device_id = id, !.dextns = extensions,
              !.properties = properties, !.features = features]

\* a variant of with_queues that adds the infos to the ones already there
with_queues_appending(b, infos) ==
    [b EXCEPT !.queue_infos = b.queue_infos \o infos]

\* Builder::with_queues
with_queues(b, infos) == [b EXCEPT !.queue_infos = infos]

\* the flattened requests of build: one make_queue_request per info, in order
RECURSIVE QueueRequests(_, _)
QueueRequests(infos, qfamilies) ==
    IF infos = <<>>
    THEN <<>>
    ELSE make_queue_request(Head(infos), qfamilies)
         \o QueueRequests(Tail(infos), qfamilies)

\* the layers of the machine, fn layers
AvailableLayers == {"VK_LAYER_KHRONOS_validation", "VK_LAYER_LUNARG_api_dump"}

\* Builder::build(surface).  failing names the library call that fails
\* ("none": all succeed).  The result is the Vulkan object, or the error or
\* panic that ends build.
Builder_build(b, surface, failing) ==
    LET iextns == IF surface.some THEN union_iextns(b.iextns, surface.val)
                  ELSE b.iextns
    IN IF failing = "Instance::new" THEN Err("Instance::new")
       ELSE IF b.device_id + 1 > Len(PhysicalDevices)
       THEN Err("panic: index out of bounds")
       ELSE
       LET pd == PhysicalDevices[b.device_id + 1]
           confirmed == confirm_properties(b, pd)
           qfamilies == pd.queue_families
           dextns0 == IF b.dextns.some THEN b.dextns.val
                      ELSE DeviceExtensions_required_extensions(pd)
           qrs == QueueRequests(b.queue_infos, qfamilies)
           dextns == extensions_for_features(b.features, dextns0)
       IN IF ~confirmed.ok THEN confirmed
          ELSE IF failing = "Device::new" THEN Err("Device::new")
          ELSE IF surface.some /\ failing = "build_vk_surface"
          THEN Err("build_vk_surface")
          ELSE IF failing = "layers_list" THEN Err("layers_list")
          ELSE Ok([layers |-> {l \in AvailableLayers :
                                 \E i \in DOMAIN b.layers : b.layers[i] = l},
                   iextns |-> b.iextns,
                   instance |-> [app_info |-> b.app_info,
                                 version |-> b.version,
                                 extensions |-> iextns,
                                 layers |-> b.layers],
                   dextns |-> dextns,
                   device |-> [physical_device |-> b.device_id,
                               features |-> b.features,
                               extensions |-> dextns,
                               queues |-> qrs],
                   queues |-> qrs,
                   surface |-> IF surface.some THEN Some("window")
                               ELSE Nothing,
                   swapchain |-> Nothing,
                   images |-> Some(<<>>)])

\* Vulkan::instance_extensions
instance_extensions(v) == v.iextns

\* Vulkan::device_extensions
device_extensions(v) == v.dextns

\* Vulkan::as_surface
as_surface(v) == v.surface

\* Vulkan::to_queues
to_queues(v) == v.queues

\* Vulkan::default_swapchain_create_info
default_swapchain_create_info(v, cap, failing) ==
    IF ~v.surface.some THEN Err("surface not enabled")
    ELSE IF failing = "capabilities" THEN Err("capabilities")
    ELSE IF cap.supported_formats = <<>>
    THEN Err("no image-formats supported by surface")
    ELSE Ok([num_images |-> cap.min_image_count,
             format |-> Head(cap.supported_formats)])

\* Vulkan::create_swapchain: the Vulkan object it leaves and its result
create_swapchain(v, info, cap, failing) ==
    LET info1 == IF info.some THEN Ok(info.val)
                 ELSE default_swapchain_create_info(v, cap, failing)
    IN IF ~info1.ok THEN [vk |-> v, res |-> info1]
       ELSE IF ~v.surface.some
       THEN [vk |-> v, res |-> Err("surface not enabled")]
       ELSE IF failing = "capabilities"
       THEN [vk |-> v, res |-> Err("capabilities")]
       ELSE IF failing = "Swapchain::build"
       THEN [vk |-> v, res |-> Err("Swapchain::build")]
       ELSE LET max_image_count ==
                    IF cap.max_image_count.some THEN cap.max_image_count.val
                    ELSE info1.val.num_images
                n == min(info1.val.num_images, max_image_count)
            IN [vk |-> [v EXCEPT
                          !.swapchain = Some([num_images |-> n,
                                              format |-> info1.val.format]),
                          !.images = Some([i \in 1..n |-> i])],
                res |-> Ok(TRUE)]

(***************************************************************************)
(* The calls a program makes on the builder and the Vulkan object, with    *)
(* the inputs they are tried with.                                         *)
(***************************************************************************)
AppInfos == {"custom"}
LayerInputs == {<<>>, <<"VK_LAYER_KHRONOS_validation">>}
InstanceExtensionInputs ==
    {Nothing, Some({}), Some({"khr_surface", "khr_xcb_surface"}),
     Some({"ext_debug_utils"})}
SurfaceInputs ==
    {Nothing, Some({}), Some({"khr_surface", "khr_xcb_surface"})}
VersionInputs == {Nothing} \cup {Some(v) : v \in Versions}

DeviceExtensionInputs ==
    {Nothing, Some({"khr_swapchain"}),
     Some(FeatureExtensionNames \cup {"khr_swapchain"})}
FeatureInputs ==
    {{}, {"geometry_shader", "descriptor_indexing",
          "shader_output_viewport_index"},
     {"descriptor_indexing", "draw_indirect_count", "sampler_filter_minmax",
      "sampler_mirror_clamp_to_edge", "shader_output_layer"}}
DeviceInputs ==
    {[id |-> 0, extensions |-> e, properties |-> Properties_default,
      features |-> f] : e \in DeviceExtensionInputs, f \in FeatureInputs}
    \cup
    {[id |-> i, extensions |-> e, properties |-> Properties_default,
      features |-> {}] : i \in 1..2, e \in {Nothing}}
    \cup
    {[id |-> 0, extensions |-> Nothing,
      properties |-> [any_some |-> TRUE], features |-> {}]}

\* the priorities 1.0, 0.5, 0.3, ... in tenths, the first n of them
Priorities(n) == [i \in 1..n |-> DefaultPriority \div i]
PriorityInputs == {Priorities(n) : n \in 0..MaxPriorities}
QueueCreateInfos ==
    [cap : QueueCapabilities, stages : {<<>>}, priorities : PriorityInputs]
    \cup
    [cap : {"Graphics"}, stages : {<<"compute_shader">>},
     priorities : {Priorities(MaxPriorities)}]
PairedInfos ==
    [cap : {"Graphics", "Transfer"}, stages : {<<>>},
     priorities : {Priorities(MaxPriorities)}]
QueueInputs ==
    {<<>>} \cup {<<i>> : i \in QueueCreateInfos}
    \cup {<<i, j>> : i \in PairedInfos, j \in PairedInfos}

SwapchainInputs ==
    {Nothing} \cup
    {Some([num_images |-> n, format |-> "R8G8B8A8Unorm"]) : n \in 1..MaxImages}
\* what Surface::capabilities may answer
SurfaceCapabilities ==
    {[min_image_count |-> 2, max_image_count |-> Some(2),
      supported_formats |-> <<"B8G8R8A8Unorm">>],
     [min_image_count |-> 1, max_image_count |-> Nothing,
      supported_formats |-> <<>>]}

\* the driver's version, or the loader's failure
Environments ==
    {[api_version |-> Err("loader")]} \cup
    {[api_version |-> Ok(<<1, 1, 0>>)]}

\* prev: the call before this one
Call(op, arg, res) ==
    [op |-> op, arg |-> arg, ok |-> res.ok,
     err |-> IF res.ok THEN "" ELSE res.err, prev |-> vkres.op]

\* a program starts with Builder::new or Builder::with
Constructed(op, arg, res) ==
    /\ builder' = IF res.ok THEN Some(res.val) ELSE Nothing
    /\ vkres' = Call(op, arg, res)
    /\ UNCHANGED <<env, ncalls, vk, built, appvars, lyvars>>

New ==
    /\ vkres.op = "start"
    /\ Constructed("new", Nothing, Builder_new(env))

With ==
    /\ vkres.op = "start"
    /\ \E app_info \in AppInfos, version \in VersionInputs :
         Constructed("with", version, Builder_with(env, app_info, version))

\* a with_* call takes the builder and gives it back changed
Chained(op, arg, b) ==
    /\ builder' = Some(b)
    /\ ncalls' = ncalls + 1
    /\ vkres' = Call(op, arg, Ok(TRUE))
    /\ UNCHANGED <<env, vk, built, appvars, lyvars>>

CanChain == builder.some /\ ncalls < MaxCalls

WithAppInfo ==
    /\ CanChain
    /\ \E app_info \in AppInfos :
         Chained("with_app_info", app_info,
                 with_app_info(builder.val, app_info))

WithLayers ==
    /\ CanChain
    /\ \E layers \in LayerInputs :
         Chained("with_layers", layers, with_layers(builder.val, layers))

WithExtensions ==
    /\ CanChain
    /\ \E extensions \in InstanceExtensionInputs :
         Chained("with_extensions", extensions,
                 with_extensions(builder.val, extensions))

WithDevice ==
    /\ CanChain
    /\ \E d \in DeviceInputs :
         Chained("with_device", d,
                 with_device(builder.val, d.id, d.extensions, d.properties,
                             d.features))

WithQueues ==
    /\ CanChain
    /\ \E infos \in QueueInputs :
         Chained("with_queues", infos, with_queues(builder.val, infos))

\* build consumes the builder
Build ==
    /\ builder.some
    /\ \E surface \in SurfaceInputs,
          failing \in {"none", "Instance::new", "Device::new",
                       "build_vk_surface", "layers_list"} :
         /\ (failing = "build_vk_surface") => surface.some
         /\ LET res == Builder_build(builder.val, surface, failing)
            IN /\ vk' = IF res.ok THEN Some(res.val) ELSE Nothing
               /\ built' = IF res.ok
                           THEN Some([builder |-> builder.val,
                                      surface |-> surface,
                                      swapchains |-> 0])
                           ELSE Nothing
               /\ vkres' = Call("build", surface, res)
    /\ builder' = Nothing
    /\ UNCHANGED <<env, ncalls, appvars, lyvars>>

\* built.val.swapchains: has create_swapchain succeeded on this object
CreateSwapchain ==
    /\ vk.some /\ ncalls < MaxCalls
    /\ ncalls' = ncalls + 1
    /\ \E info \in SwapchainInputs, cap \in SurfaceCapabilities,
          failing \in {"none", "capabilities", "Swapchain::build"} :
         LET r == create_swapchain(vk.val, info, cap, failing)
         IN /\ vk' = Some(r.vk)
            /\ vkres' = Call("create_swapchain", Nothing, r.res)
            /\ built' = IF r.res.ok
                        THEN Some([built.val EXCEPT !.swapchains = 1])
                        ELSE built
    /\ UNCHANGED <<env, builder, appvars, lyvars>>

VkInit ==
    /\ env \in Environments
    /\ builder = Nothing
    /\ ncalls = 0
    /\ vk = Nothing
    /\ built = Nothing
    /\ vkres = [op |-> "start", arg |-> Nothing, ok |-> TRUE, err |-> "",
                prev |-> "start"]
    /\ app = "cls"
    /\ screen = [size |-> [width |-> 0, height |-> 0],
                 config |-> [width |-> 0, height |-> 0]]
    /\ control_flow = "Poll"
    /\ phase = "events"
    /\ redraw_requested = FALSE
    /\ last = NoCall
    /\ layres = NoLay /\ state = NoLay /\ hist = NoLay

VkNext ==
    \/ New
    \/ With
    \/ WithAppInfo
    \/ WithLayers
    \/ WithExtensions
    \/ WithDevice
    \/ WithQueues
    \/ Build
    \/ CreateSwapchain

VkSpec == VkInit /\ [][VkNext]_vars

(***************************************************************************)
(* The layout types, src/layout.rs                                         *)
(*                                                                         *)
(* An f32 is the fraction <<n, d>> in lowest terms with d > 0; the         *)
(* infinities are <<1, 0>> and <<-1, 0>> and NaN is <<0, 0>>, which is     *)
(* what IEEE division by zero gives.  The arithmetic is exact: rounding,   *)
(* overflow, underflow and the sign of zero are not modelled.              *)
(***************************************************************************)
\* pixel coordinates and lengths range over 0..MaxPx
MaxPx == 3

Abs(n) == IF n < 0 THEN 0 - n ELSE n
Sign(n) == IF n < 0 THEN 0 - 1 ELSE IF n = 0 THEN 0 ELSE 1

RECURSIVE GCD(_, _)
GCD(a, b) == IF b = 0 THEN a ELSE GCD(b, a % b)

NaN == <<0, 0>>
Inf == <<1, 0>>
IsNaN(a) == a = NaN
IsInf(a) == a[2] = 0 /\ a[1] # 0
IsZero(a) == a[1] = 0 /\ a[2] # 0

\* the fraction n / d, d # 0, in lowest terms
Frac(n, d) ==
    LET g == GCD(Abs(n), Abs(d))
    IN <<Sign(d) * (n \div g), Abs(d) \div g>>

\* the f32 of a whole number
F(n) == <<n, 1>>

\* a * b
FMul(a, b) ==
    IF IsNaN(a) \/ IsNaN(b) THEN NaN
    ELSE IF IsInf(a) \/ IsInf(b)
         THEN <<Sign(a[1]) * Sign(b[1]), 0>>
         ELSE Frac(a[1] * b[1], a[2] * b[2])

\* 1 / a
FRecip(a) ==
    IF IsNaN(a) THEN NaN
    ELSE IF IsZero(a) THEN Inf
    ELSE IF IsInf(a) THEN F(0)
    ELSE <<Sign(a[1]) * a[2], Abs(a[1])>>

\* a / b
FDiv(a, b) == FMul(a, FRecip(b))

\* a > b and a <= b; every comparison with NaN is false
FGt(a, b) == ~IsNaN(a) /\ ~IsNaN(b) /\ a[1] * b[2] > b[1] * a[2]
FLe(a, b) == ~IsNaN(a) /\ ~IsNaN(b) /\ a[1] * b[2] <= b[1] * a[2]

\* stretch::style::Dimension
Undefined == [kind |-> "Undefined"]
Auto == [kind |-> "Auto"]
Points(v) == [kind |-> "Points", val |-> v]
Percent(v) == [kind |-> "Percent", val |-> v]

\* struct Size, and stretch::geometry::Size<T>
MkSize(w, h) == [width |-> w, height |-> h]

\* impl From<Size> for stretch::geometry::Size<Dimension>
Size_into_dimension(val) ==
    [width |-> Points(val.width), height |-> Points(val.height)]

\* impl From<stretch::geometry::Size<Dimension>> for Size: both matches are
\* on val.width
Size_from_dimension(val) ==
    LET width == IF val.width.kind = "Points" THEN val.width.val ELSE F(0)
        height == IF val.width.kind = "Points" THEN val.width.val ELSE F(0)
    IN [width |-> width, height |-> height]

\* struct BoxLayout, and its derived Default
MkBoxLayout(x, y, w, h) == [x |-> x, y |-> y, w |-> w, h |-> h]
BoxLayout_default == MkBoxLayout(F(0), F(0), F(0), F(0))

\* a variant of BoxLayout_from that takes the width for both lengths
BoxLayout_from_width_twice(val) ==
    [x |-> val.location.x, y |-> val.location.y,
     w |-> val.size.width, h |-> val.size.width]

\* impl From<stretch::result::Layout> for BoxLayout
BoxLayout_from(val) ==
    [x |-> val.location.x, y |-> val.location.y,
     w |-> val.size.width, h |-> val.size.height]

\* cgmath Point2<f32>
Point2(x, y) == [x |-> x, y |-> y]

\* a variant of to_aspect_ratio with the comparison turned around
to_aspect_ratio_flipped(self) ==
    IF FGt(self.h, self.w)
    THEN Point2(F(1), FDiv(self.h, self.w))
    ELSE Point2(FDiv(self.w, self.h), F(1))

\* BoxLayout::to_aspect_ratio
to_aspect_ratio(self) ==
    IF FGt(self.w, self.h)
    THEN Point2(F(1), FDiv(self.h, self.w))
    ELSE Point2(FDiv(self.w, self.h), F(1))

\* a variant of to_ncc that leaves the aspect ratio out of y
to_ncc_y_unscaled(self, point) ==
    LET ar == to_aspect_ratio(self)
    IN Point2(FMul(FDiv(point.x, self.w), ar.x), FDiv(point.y, self.h))

\* BoxLayout::to_ncc
to_ncc(self, point) ==
    LET ar == to_aspect_ratio(self)
    IN Point2(FMul(FDiv(point.x, self.w), ar.x),
              FMul(FDiv(point.y, self.h), ar.y))

\* BoxLayout::to_ndc
to_ndc(self, point) ==
    LET ar == to_aspect_ratio(self)
    IN Point2(FDiv(FDiv(point.x, self.w), ar.x),
              FDiv(FDiv(point.y, self.h), ar.y))

\* struct Location
MkLocation(x, y) == [x |-> x, y |-> y]

(***************************************************************************)
(* Style is the crate's style type: here its size, which                   *)
(* Circle::new sets from the circle's diameter, and its resize, which      *)
(* scales the lengths given in points by the scale factor.                 *)
(***************************************************************************)
Style_default == [size |-> [width |-> Auto, height |-> Auto]]

Style_set_size(style, size) ==
    [style EXCEPT !.size = Size_into_dimension(size)]

Dimension_resize(d, scale_factor) ==
    IF d.kind = "Points" THEN Points(FMul(d.val, scale_factor)) ELSE d

Style_resize(style, offset, scale_factor) ==
    [style EXCEPT
        !.size = [width |-> Dimension_resize(style.size.width, scale_factor),
                  height |-> Dimension_resize(style.size.height,
                                              scale_factor)]]

\* dom/circle: struct Attributes and its Default
MkAttributes(radius, fill) == [radius |-> radius, fill |-> fill]
Attributes_default == MkAttributes(F(1), FALSE)

\* dom/circle: Attributes' scaling, the attrs.resize of State::resize for a
\* circle: the radius times the scale factor, the offset unused
Attributes_transform2d(self, offset, scale_factor) ==
    [self EXCEPT !.radius = FMul(self.radius, scale_factor)]

\* impl Default for State<T>, T = Attributes
State_default ==
    [style |-> Style_default, computed_style |-> Style_default,
     flex_node |-> Nothing, box_layout |-> BoxLayout_default,
     attrs |-> Attributes_default, computed_attrs |-> Attributes_default]

\* the state Circle::new builds
Circle_new(attrs) ==
    LET st == [State_default EXCEPT !.attrs = attrs,
                                    !.computed_attrs = attrs]
        diameter == FMul(st.computed_attrs.radius, F(2))
        size == MkSize(diameter, diameter)
    IN [st EXCEPT !.style = Style_set_size(st.style, size)]

\* a variant of State_resize that resizes what the last call computed
State_resize_compounding(self, offset, scale_factor) ==
    [self EXCEPT
        !.computed_style =
            Style_resize(self.computed_style, offset, scale_factor),
        !.computed_attrs =
            Attributes_transform2d(self.computed_attrs, offset,
                                   scale_factor)]

\* State::resize
State_resize(self, offset, scale_factor) ==
    [self EXCEPT
        !.computed_style = Style_resize(self.style, offset, scale_factor),
        !.computed_attrs =
            Attributes_transform2d(self.attrs, offset, scale_factor)]

\* State::as_computed_style, State::as_computed_attrs
as_computed_style(self) == self.computed_style
as_computed_attrs(self) == self.computed_attrs

(***************************************************************************)
(* The values the layout operations are applied to                         *)
(***************************************************************************)
Pixels == {F(n) : n \in 0..MaxPx}
SizeInputs == {MkSize(w, h) : w \in Pixels, h \in Pixels}
Dimensions == {Undefined, Auto, Percent(F(1))} \cup {Points(v) : v \in Pixels}
DimensionSizes == {MkSize(w, h) : w \in Dimensions, h \in Dimensions}

\* stretch::result::Layout: the solver's order, size and location
LocationInputs ==
    {Point2(F(0), F(0)), Point2(F(1), F(2)), Point2(F(0 - 1), F(0))}
Layouts == [order : {0}, size : SizeInputs, location : LocationInputs]
BoxLayouts == {BoxLayout_from(l) : l \in Layouts}
PointInputs == {Point2(x, y) : x \in Pixels, y \in Pixels}

\* a call about to be made: the operation, its receiver and its argument
LayInput(op, self, arg) ==
    [op |-> op, self |-> self, arg |-> arg, ret |-> NoLay, done |-> FALSE]

LayInputs ==
    {LayInput("BoxLayout::from", NoLay, val) : val \in Layouts}
    \cup {LayInput("Size::into", NoLay, val) : val \in SizeInputs}
    \cup {LayInput("Size::from", NoLay, val) : val \in DimensionSizes}
    \cup {LayInput("to_aspect_ratio", self, NoLay) : self \in BoxLayouts}
    \cup {LayInput("to_ncc", self, point) :
             self \in BoxLayouts, point \in PointInputs}
    \cup {LayInput("to_ndc", self, point) :
             self \in BoxLayouts, point \in PointInputs}

\* the call op is made and returns ret
LayCall(op, ret) ==
    /\ layres.op = op /\ ~layres.done
    /\ layres' = [layres EXCEPT !.ret = ret, !.done = TRUE]
    /\ UNCHANGED <<state, hist, appvars, vkvars>>

FromLayout == LayCall("BoxLayout::from", BoxLayout_from(layres.arg))

SizeIntoDimension == LayCall("Size::into", Size_into_dimension(layres.arg))

SizeFromDimension == LayCall("Size::from", Size_from_dimension(layres.arg))

ToAspectRatio == LayCall("to_aspect_ratio", to_aspect_ratio(layres.self))

ToNcc == LayCall("to_ncc", to_ncc(layres.self, layres.arg))

ToNdc == LayCall("to_ndc", to_ndc(layres.self, layres.arg))

\* the other specifications' variables stay as they are
Idle ==
    /\ app = "cls"
    /\ screen = [size |-> [width |-> 0, height |-> 0],
                 config |-> [width |-> 0, height |-> 0]]
    /\ control_flow = "Poll"
    /\ phase = "events"
    /\ redraw_requested = FALSE
    /\ last = NoCall
    /\ env = NoVk /\ builder = NoVk /\ vk = NoVk /\ built = NoVk
    /\ ncalls = 0
    /\ vkres = NoVk

\* one operation with its input, drawn from the values above
LayInit ==
    /\ layres \in LayInputs
    /\ state = NoLay /\ hist = NoLay
    /\ Idle

LayNext ==
    \/ FromLayout
    \/ SizeIntoDimension
    \/ SizeFromDimension
    \/ ToAspectRatio
    \/ ToNcc
    \/ ToNdc

LaySpec == LayInit /\ [][LayNext]_vars

(***************************************************************************)
(* A circle's state: built by Circle::new, then resized whenever the       *)
(* window's scale factor or the node's offset changes.                     *)
(***************************************************************************)
\* a behaviour makes MaxResizes State::resize calls
MaxResizes == 2

AttributeInputs == {MkAttributes(F(r), f) : r \in 1..MaxPx, f \in BOOLEAN}
OffsetInputs == {MkLocation(F(0), F(0)), MkLocation(F(1), F(2))}
ScaleFactors == {F(1), Frac(3, 2), F(2)}
ResizeInputs ==
    {[offset |-> o, scale_factor |-> f] : o \in OffsetInputs,
                                          f \in ScaleFactors}

\* hist.todo: the calls the program goes on to make; hist.calls: those made
StateResize ==
    /\ hist.todo # <<>>
    /\ LET c == Head(hist.todo)
       IN /\ state' = State_resize(state, c.offset, c.scale_factor)
          /\ hist' = [hist EXCEPT !.calls = Append(@, c),
                                  !.todo = Tail(@)]
    /\ UNCHANGED <<layres, appvars, vkvars>>

StateInit ==
    /\ \E attrs \in AttributeInputs,
          todo \in [1..MaxResizes -> ResizeInputs] :
         /\ state = Circle_new(attrs)
         /\ hist = [base |-> Circle_new(attrs), calls |-> <<>>,
                    todo |-> todo]
    /\ layres = NoLay
    /\ Idle

StateNext == StateResize

StateSpec == StateInit /\ [][StateNext]_vars

(***************************************************************************)
(* Claims about the example applications, checked under Spec               *)
(***************************************************************************)
RedrawFailedWith(e) ==
    last.handler = "on_redraw_requested" /\ last.render = e

EscapePressed(ev) ==
    /\ ev.kind = "WindowEvent"
    /\ ev.event = "KeyboardInput"
    /\ ev.state = "Pressed"
    /\ ev.virtual_keycode = "Escape"

\* C10: the keyboard handler returns ControlFlow::Exit for a keyboard event
\* with Escape in Pressed state, and the loop exits; for every other event
\* it returns None and the loop keeps running.
C10_EscapeExits ==
    (last.handler = "on_win_keyboard_input") =>
        IF EscapePressed(last.event)
        THEN last.ret = "Exit" /\ control_flow = "Exit"
        ELSE last.ret = None /\ control_flow = "Poll"

C10_Witness ==
    /\ last.handler = "on_win_keyboard_input"
    /\ EscapePressed(last.event)
    /\ control_flow = "Exit"
    /\ app = "points"

\* C16: every MainEventsCleared makes the handler request a redraw and
\* return None, so an iteration of the running loop never passes its redraw
\* step without a pending redraw, and its MainEventsCleared is followed by a
\* RedrawRequested event, in every iteration and not only the first.
C16_RedrawEveryIteration ==
    /\ []((last.handler = "on_main_events_cleared") =>
            (last.requested /\ last.ret = None))
    /\ []((phase = "redraw") => (redraw_requested /\ control_flow = "Poll"))
    /\ []((phase = "cleared") => (last.handler = "on_redraw_requested"))
    /\ ((phase = "redraw") ~>
           (phase = "cleared" /\ last.handler = "on_redraw_requested"))

\* a later iteration's MainEventsCleared: the redraw of the iteration before
\* used up the pending request, and the handler asked again
C16_Witness ==
    /\ last.handler = "on_main_events_cleared"
    /\ ~last.pending
    /\ last.requested /\ last.ret = None
    /\ phase = "redraw" /\ redraw_requested

OtherErrors == Errors \ {"SurfaceLost", "SurfaceOutOfMemory"}

\* C17: when Screen::render fails with an error other than SurfaceLost and
\* SurfaceOutOfMemory, the redraw handler prints the error and returns None:
\* no Screen::resize call, the screen as it was, and the loop keeps running.
C17_OtherErrorsReported ==
    (last.handler = "on_redraw_requested" /\ last.render \in OtherErrors) =>
        /\ last.printed
        /\ last.ret = None
        /\ last.resized = <<>>
        /\ screen = last.before
        /\ control_flow = "Poll"

\* a timeout in examples/points, and the loop back at its next iteration
C17_Witness ==
    /\ RedrawFailedWith("Timeout")
    /\ last.printed /\ last.ret = None
    /\ phase = "events" /\ control_flow = "Poll"
    /\ app = "points"

(***************************************************************************)
(* Claims about the Vulkan builder, checked under VkSpec                   *)
(***************************************************************************)
\* the builder build consumed, and the physical device it selected
BuiltFrom == built.val.builder
BuiltPd == PhysicalDevices[BuiltFrom.device_id + 1]

\* C3: every QueueCreateInfo yields exactly priorities.len() queue requests,
\* the i-th carrying priorities[i], and the device's queues are these
\* requests: as many as there are priorities.
C3_OneRequestPerPriority ==
    vk.some =>
        /\ \A k \in DOMAIN BuiltFrom.queue_infos :
             LET info == BuiltFrom.queue_infos[k]
                 qr == make_queue_request(info, BuiltPd.queue_families)
             IN /\ Len(qr) = Len(info.priorities)
                /\ \A i \in DOMAIN qr : qr[i][2] = info.priorities[i]
        /\ (Len(BuiltFrom.queue_infos) = 1) =>
             Len(to_queues(vk.val)) = Len(BuiltFrom.queue_infos[1].priorities)

\* the device extension that goes with a feature
ExtensionOfFeature(f) ==
    CASE f = "descriptor_indexing" -> {"ext_descriptor_indexing"}
      [] f = "draw_indirect_count" -> {"khr_draw_indirect_count"}
      [] f = "sampler_filter_minmax" -> {"ext_sampler_filter_minmax"}
      [] f = "sampler_mirror_clamp_to_edge" ->
            {"khr_sampler_mirror_clamp_to_edge"}
      [] f = "shader_output_layer" -> {"ext_shader_viewport_index_layer"}
      [] OTHER -> {}

\* C4: the device is created with the extension of every feature requested
\* through with_device, whether or not the extensions argument names it.
C4_FeatureExtensionsEnabled ==
    vk.some =>
        \A f \in BuiltFrom.features :
            /\ ExtensionOfFeature(f) \subseteq vk.val.device.extensions
            /\ ExtensionOfFeature(f) \subseteq device_extensions(vk.val)

\* a version as one number, major first
VersionNumber(v) == v[1] * 10000 + v[2] * 100 + v[3]

\* C5: Builder::with fails when the requested version is greater than the
\* driver's; otherwise the builder's version is the requested one, and the
\* driver's when none is requested.
C5_WithVersion ==
    (vkres.op = "with" /\ env.api_version.ok) =>
        LET local == env.api_version.val
            requested == vkres.arg
        IN IF requested.some
              /\ VersionNumber(requested.val) > VersionNumber(local)
           THEN ~vkres.ok /\ ~builder.some
           ELSE /\ vkres.ok /\ builder.some
                /\ builder.val.version =
                     IF requested.some THEN requested.val ELSE local

\* a request the driver's version covers although its patch number is the
\* smaller one
C5_Witness ==
    /\ vkres.op = "with" /\ vkres.ok /\ vkres.arg.some
    /\ vkres.arg.val[3] > env.api_version.val[3]
    /\ builder.val.version = vkres.arg.val

\* C6: a new builder (Builder::new or Builder::with) holds exactly one
\* QueueCreateInfo: Graphics, no stages, the priority 1.0; only with_queues
\* changes the queue configuration, and it replaces it by its argument; build
\* derives the device's queues from the configuration the builder holds.
C6_QueueConfiguration ==
    [][ /\ (vkres'.op \in {"new", "with"} /\ vkres'.ok) =>
             builder'.val.queue_infos =
                 << [cap |-> "Graphics", stages |-> <<>>,
                     priorities |-> <<10>>] >>
        /\ (vkres'.op = "with_queues") =>
             builder'.val.queue_infos = vkres'.arg
        /\ (vkres'.op \in {"with_app_info", "with_layers", "with_extensions",
                           "with_device"}) =>
             builder'.val.queue_infos = builder.val.queue_infos
        /\ (vkres'.op = "build" /\ vkres'.ok) =>
             /\ built'.val.builder.queue_infos = builder.val.queue_infos
             /\ to_queues(vk'.val) =
                  QueueRequests(builder.val.queue_infos,
                      PhysicalDevices[builder.val.device_id + 1].queue_families)
      ]_vars

\* with_queues called twice in a row: the builder holds the second argument
C6_Witness ==
    /\ vkres.op = "with_queues" /\ vkres.prev = "with_queues"
    /\ builder.some
    /\ builder.val.queue_infos = vkres.arg
    /\ vkres.arg # <<QueueCreateInfo_default>>

\* C7: when the builder's device extensions are None, every extension of
\* DeviceExtensions::required_extensions(pd) is enabled on the device and
\* reported by device_extensions().
C7_RequiredExtensionsEnabled ==
    (vk.some /\ ~BuiltFrom.dextns.some) =>
        /\ DeviceExtensions_required_extensions(BuiltPd)
             \subseteq vk.val.device.extensions
        /\ DeviceExtensions_required_extensions(BuiltPd)
             \subseteq device_extensions(vk.val)

C7_Witness ==
    /\ vk.some /\ ~BuiltFrom.dextns.some
    /\ DeviceExtensions_required_extensions(BuiltPd) # {}
    /\ BuiltFrom.features # {}
    /\ DeviceExtensions_required_extensions(BuiltPd)
         \subseteq device_extensions(vk.val)

\* C8: instance_extensions() is the extension set the instance was created
\* with.
C8_InstanceExtensionsReported ==
    vk.some => instance_extensions(vk.val) = vk.val.instance.extensions

\* C9: the Vulkan object holds a surface exactly when build's argument was
\* Some; the instance is created with the builder's instance extensions,
\* joined with the supplied ones when there are some; and until a
\* create_swapchain succeeds there is no swapchain and no image.
C9_SurfaceAndSwapchain ==
    vk.some =>
        /\ as_surface(vk.val).some <=> built.val.surface.some
        /\ vk.val.instance.extensions =
             IF built.val.surface.some
             THEN BuiltFrom.iextns \cup built.val.surface.val
             ELSE BuiltFrom.iextns
        /\ (built.val.swapchains = 0) =>
             /\ ~vk.val.swapchain.some
             /\ vk.val.images = Some(<<>>)

\* built with surface extensions the builder did not have, and a
\* create_swapchain that failed
C9_Witness ==
    /\ vk.some /\ built.val.surface.some
    /\ ~(built.val.surface.val \subseteq BuiltFrom.iextns)
    /\ as_surface(vk.val).some
    /\ vkres.op = "create_swapchain" /\ ~vkres.ok
    /\ ~vk.val.swapchain.some

(***************************************************************************)
(* Claims about layout.rs, checked under LaySpec and StateSpec             *)
(***************************************************************************)
\* C11: the BoxLayout made from a solver Layout has the layout's location x
\* and y as x and y, and its size's width and height as w and h.
C11_LayoutRectanglePreserved ==
    (layres.op = "BoxLayout::from" /\ layres.done) =>
        /\ layres.ret.x = layres.arg.location.x
        /\ layres.ret.y = layres.arg.location.y
        /\ layres.ret.w = layres.arg.size.width
        /\ layres.ret.h = layres.arg.size.height

\* a layout whose four numbers differ
C11_Witness ==
    /\ layres.op = "BoxLayout::from" /\ layres.done
    /\ layres.arg.location = Point2(F(1), F(2))
    /\ layres.arg.size = MkSize(F(3), F(0))
    /\ layres.ret = MkBoxLayout(F(1), F(2), F(3), F(0))

\* C12: a Size converts to a Size<Dimension> with both dimensions in Points;
\* converting that back gives a Size with the same width and the same
\* height; and a dimension that is not Points converts to 0.
C12_SizeRoundTrip ==
    /\ (layres.op = "Size::into" /\ layres.done) =>
          /\ layres.ret.width = Points(layres.arg.width)
          /\ layres.ret.height = Points(layres.arg.height)
    /\ (layres.op = "Size::from" /\ layres.done) =>
          /\ (layres.arg.width.kind = "Points"
              /\ layres.arg.height.kind = "Points") =>
                layres.arg = [width |-> Points(layres.ret.width),
                              height |-> Points(layres.ret.height)]
          /\ (layres.arg.width.kind # "Points") => layres.ret.width = F(0)
          /\ (layres.arg.height.kind # "Points") => layres.ret.height = F(0)

\* C13: after any sequence of State::resize calls the computed style and
\* attributes are the base style and attributes resized with the arguments
\* of the last call only, and style, attrs, flex_node and box_layout are as
\* they were before the first call.
C13_ResizeDoesNotCompound ==
    /\ state.style = hist.base.style
    /\ state.attrs = hist.base.attrs
    /\ state.flex_node = hist.base.flex_node
    /\ state.box_layout = hist.base.box_layout
    /\ (hist.calls # <<>>) =>
          LET c == hist.calls[Len(hist.calls)]
          IN /\ as_computed_attrs(state) =
                   [radius |-> FMul(hist.base.attrs.radius, c.scale_factor),
                    fill |-> hist.base.attrs.fill]
             /\ as_computed_style(state) =
                   Style_resize(hist.base.style, c.offset, c.scale_factor)

\* two calls with different scale factors, neither of them 1
C13_Witness ==
    /\ Len(hist.calls) = 2
    /\ hist.calls[1].scale_factor = F(2)
    /\ hist.calls[2].scale_factor = Frac(3, 2)
    /\ hist.base.attrs.radius = F(2)
    /\ state.computed_attrs.radius = F(3)
    /\ state.computed_style.size.width = Points(F(6))

\* 0 <= v <= 1
InUnitRange(v) == FLe(F(0), v) /\ FLe(v, F(1))

\* the box has a positive width and height and the point lies in
\* [0, w] x [0, h]
PointInBox(self, point) ==
    /\ FGt(self.w, F(0)) /\ FGt(self.h, F(0))
    /\ FLe(F(0), point.x) /\ FLe(point.x, self.w)
    /\ FLe(F(0), point.y) /\ FLe(point.y, self.h)

\* C14: for a box with w > 0 and h > 0 and a point p with 0 <= p.x <= w and
\* 0 <= p.y <= h, both components of to_ndc(p) lie in [0, 1].
C14_ToNdcNormalized ==
    (layres.op = "to_ndc" /\ layres.done
     /\ PointInBox(layres.self, layres.arg)) =>
        /\ InUnitRange(layres.ret.x)
        /\ InUnitRange(layres.ret.y)

\* the aspect ratio of a box as the claims state it
StatedAspectRatio(self) ==
    IF FGt(self.w, self.h)
    THEN Point2(F(1), Frac(self.h[1] * self.w[2], self.h[2] * self.w[1]))
    ELSE Point2(Frac(self.w[1] * self.h[2], self.w[2] * self.h[1]), F(1))

\* C15: for a box with w > 0 and h > 0 and a point p with 0 <= p.x <= w and
\* 0 <= p.y <= h, both components of to_ncc(p) lie in [0, 1], and the far
\* corner (w, h) maps to (1, h/w) when w > h and to (w/h, 1) otherwise.
C15_ToNccNormalized ==
    (layres.op = "to_ncc" /\ layres.done
     /\ PointInBox(layres.self, layres.arg)) =>
        /\ InUnitRange(layres.ret.x)
        /\ InUnitRange(layres.ret.y)
        /\ (layres.arg = Point2(layres.self.w, layres.self.h)) =>
              layres.ret = StatedAspectRatio(layres.self)

\* the far corner of a box wider than high, and of one higher than wide
C15_Witness ==
    /\ layres.op = "to_ncc" /\ layres.done
    /\ layres.self.w = F(3) /\ layres.self.h = F(2)
    /\ layres.arg = Point2(F(3), F(2))
    /\ layres.ret = Point2(F(1), Frac(2, 3))

\* C18: for a box with w > 0 and h > 0, to_aspect_ratio is (1, h/w) when
\* w > h and (w/h, 1) when w <= h: both components are in (0, 1], and a
\* square box gives (1, 1).
C18_AspectRatio ==
    (layres.op = "to_aspect_ratio" /\ layres.done
     /\ FGt(layres.self.w, F(0)) /\ FGt(layres.self.h, F(0))) =>
        /\ layres.ret = StatedAspectRatio(layres.self)
        /\ FGt(layres.ret.x, F(0)) /\ FLe(layres.ret.x, F(1))
        /\ FGt(layres.ret.y, F(0)) /\ FLe(layres.ret.y, F(1))
        /\ (layres.self.w = layres.self.h) =>
              layres.ret = Point2(F(1), F(1))

\* a box higher than wide
C18_Witness ==
    /\ layres.op = "to_aspect_ratio" /\ layres.done
    /\ layres.self.w = F(2) /\ layres.self.h = F(3)
    /\ layres.ret = Point2(Frac(2, 3), F(1))
====
